---- MODULE Spec2Model ----
(***************************************************************************)
(* PixelAlchemy backend (src/server.js): an Express server whose           *)
(* POST /generate route validates a JSON body, shapes a Gemini request     *)
(* from it, awaits the upstream model once and maps the reply to a JSON    *)
(* response.                                                               *)
(*                                                                         *)
(* JavaScript values are modelled as follows.                              *)
(*   - an optional value (a JSON field, an env var) is a sequence of       *)
(*     length 0 (undefined) or 1 (the value);                              *)
(*   - prompt, negative, mimeType and messages are TLA+ strings;           *)
(*   - base64 data is a sequence of characters, so that split(',') is      *)
(*     computed character by character;                                    *)
(*   - JSON objects are records; a field that is not set is not in the     *)
(*     record's DOMAIN.                                                    *)
(* The off-the-shelf middleware in front of the route (rate limiter, cors, *)
(* express.json) is not modelled: a request of the model is one that this  *)
(* middleware has admitted and parsed.                                     *)
(***************************************************************************)
EXTENDS Naturals, Sequences, FiniteSets, TLC

VARIABLES env, server, health, pc, body, calls, reply, sent

vars == <<env, server, health, pc, body, calls, reply, sent>>

(***************************************************************************)
(* Bounds of the model.                                                    *)
(***************************************************************************)
\* number of requests that may be in flight at once
NumReqs == 2
\* longest base64 data string of an image or a mask, in characters
MaxLen == 3
\* most content parts in the first candidate of an upstream response
MaxParts == 2
\* most candidates in an upstream response
MaxCands == 2

Slots == 1..NumReqs

(***************************************************************************)
(* Optional values and JavaScript truthiness.                              *)
(***************************************************************************)
Undefined == <<>>

Some(v) == <<v>>

\* !x is false: x is defined and is not the empty string
TruthyText(o) == o # Undefined /\ o[1] # ""

\* the same for a string held as a sequence of characters
TruthyChars(o) == o # Undefined /\ o[1] # <<>>

SeqsUpTo(S, n) == UNION {[1..k -> S] : k \in 0..n}

Min(S) == CHOOSE m \in S : \A k \in S : m <= k

(***************************************************************************)
(* Inputs: request bodies.                                                 *)
(***************************************************************************)
Chars == {"A", ","}

Base64Strings == SeqsUpTo(Chars, MaxLen)

MimeTypes == {"", "image/png", "image/jpeg"}

Opt(S) == {Undefined} \cup {Some(v) : v \in S}

FileObjects == [data : Opt(Base64Strings), mimeType : Opt(MimeTypes)]

Bodies ==
    [prompt : Opt({"", "cat"}), negative : Opt({"", "dog"}),
     image : Opt(FileObjects), mask : Opt(FileObjects)]

PngOf(chars) == Some([data |-> Some(chars), mimeType |-> Some("image/png")])

\* a small set of bodies, one per path through the route
FewBodies ==
    { [prompt |-> p, negative |-> Undefined, image |-> i, mask |-> m] :
        p \in {Undefined, Some("cat")},
        i \in {Undefined, PngOf(<<"A">>)},
        m \in {Undefined, PngOf(<<",", "A">>),
                Some([data |-> Undefined, mimeType |-> Some("image/png")])} }

(***************************************************************************)
(* Inputs: what the upstream model does with a call.                       *)
(***************************************************************************)
TextPart(t) == [text |-> t]

InlinePart(d) == [inlineData |-> [data |-> d, mimeType |-> "image/png"]]

\* a part that carries neither text nor inline data
OtherPart == [functionCall |-> "f"]

Parts == {TextPart("blocked"), TextPart(""), InlinePart("IMG1"),
          InlinePart("IMG2"), OtherPart}

FinishReasons == {"STOP", "SAFETY"}

\* candidates with content, and candidates the model stopped before any content
Candidates ==
    [finishReason : FinishReasons, content : [parts : SeqsUpTo(Parts, MaxParts)]]
    \cup [finishReason : FinishReasons]

\* the candidates that may follow the first one
ExtraCandidates ==
    { [finishReason |-> "STOP", content |-> [parts |-> <<InlinePart("IMG2")>>]],
      [finishReason |-> "SAFETY", content |-> [parts |-> <<TextPart("refused")>>]],
      [finishReason |-> "SAFETY"] }

Responses ==
    { [candidates |-> <<c>> \o t] :
        c \in Candidates, t \in SeqsUpTo(ExtraCandidates, MaxCands - 1) }
    \cup {[candidates |-> <<>>], [promptFeedback |-> "SAFETY"]}

ErrorMessages == {"", "fetch failed", "429 quota exceeded"}

Resolve(response) == [kind |-> "resolve", response |-> response]

Reject(message) == [kind |-> "reject", message |-> message]

Replies ==
    {Resolve(x) : x \in Responses} \cup {Reject(m) : m \in ErrorMessages}

FewReplies ==
    { Reject("fetch failed"),
      Resolve([candidates |-> <<[finishReason |-> "STOP",
                                 content |-> [parts |-> <<InlinePart("IMG1")>>]]>>]),
      Resolve([candidates |-> <<[finishReason |-> "SAFETY",
                                 content |-> [parts |-> <<TextPart("blocked")>>]]>>]),
      Resolve([candidates |-> <<>>]) }

(***************************************************************************)
(* HTTP responses.                                                         *)
(***************************************************************************)
Res(status, json) == [status |-> status, body |-> json]

(***************************************************************************)
(* validateGenerateRequest: the responses it sends and whether it calls    *)
(* next().                                                                 *)
(***************************************************************************)
Rejected(error, details) ==
    [next |-> FALSE, sent |-> <<Res(400, [error |-> error, details |-> details])>>]

\* !data || !mimeType
FileIncomplete(f) == ~TruthyChars(f.data) \/ ~TruthyText(f.mimeType)

\* faulty variant: the mask is not validated
validateWithoutMaskCheck(b) ==
    IF ~TruthyText(b.prompt)
    THEN Rejected("Missing required field", "The 'prompt' field is required")
    ELSE IF b.image # Undefined /\ FileIncomplete(b.image[1])
    THEN Rejected("Invalid image data",
                  "When providing an image, both 'data' and 'mimeType' are required")
    ELSE [next |-> TRUE, sent |-> <<>>]

\* faulty variant: the mask branch sends its 400 without returning, so next() runs too
validateMaskWithoutReturn(b) ==
    IF ~TruthyText(b.prompt)
    THEN Rejected("Missing required field", "The 'prompt' field is required")
    ELSE IF b.image # Undefined /\ FileIncomplete(b.image[1])
    THEN Rejected("Invalid image data",
                  "When providing an image, both 'data' and 'mimeType' are required")
    ELSE IF b.mask # Undefined /\ FileIncomplete(b.mask[1])
    THEN [next |-> TRUE,
          sent |-> Rejected("Invalid mask data",
                            "When providing a mask, both 'data' and 'mimeType' are required").sent]
    ELSE [next |-> TRUE, sent |-> <<>>]

validateGenerateRequest(b) ==
    IF ~TruthyText(b.prompt)
    THEN Rejected("Missing required field", "The 'prompt' field is required")
    ELSE IF b.image # Undefined /\ FileIncomplete(b.image[1])
    THEN Rejected("Invalid image data",
                  "When providing an image, both 'data' and 'mimeType' are required")
    ELSE IF b.mask # Undefined /\ FileIncomplete(b.mask[1])
    THEN Rejected("Invalid mask data",
                  "When providing a mask, both 'data' and 'mimeType' are required")
    ELSE [next |-> TRUE, sent |-> <<>>]

(***************************************************************************)
(* base64ToGenerativePart.                                                 *)
(***************************************************************************)
\* String.prototype.split with a one-character separator
RECURSIVE split(_, _)
split(s, sep) ==
    IF \A i \in 1..Len(s) : s[i] # sep
    THEN <<s>>
    ELSE LET i == Min({k \in 1..Len(s) : s[k] = sep})
         IN  <<SubSeq(s, 1, i - 1)>> \o split(SubSeq(s, i + 1, Len(s)), sep)

\* faulty variant: Array.prototype.shift, the first element
shift(a) == a[1]

\* Array.prototype.pop: the last element
pop(a) == a[Len(a)]

base64ToGenerativePart(base64Data, mimeType) ==
    [inlineData |-> [data |-> pop(split(base64Data, ",")), mimeType |-> mimeType]]

(***************************************************************************)
(* The POST /generate handler up to its await: the request it builds.      *)
(***************************************************************************)
DefaultNegative == "blurry, low quality, watermarks"

\* faulty variant: no default for a missing negative
fullPromptWithoutDefault(b) ==
    b.prompt[1] \o ". --negative "
        \o (IF b.negative # Undefined THEN b.negative[1] ELSE "")

fullPrompt(b) ==
    b.prompt[1] \o ". --negative "
        \o (IF TruthyText(b.negative) THEN b.negative[1] ELSE DefaultNegative)

\* x && x.data && x.mimeType
FilePresent(o) == o # Undefined /\ TruthyChars(o[1].data) /\ TruthyText(o[1].mimeType)

FilePart(o) == base64ToGenerativePart(o[1].data[1], o[1].mimeType[1])

\* faulty variant: the mask is put before the image
partsMaskFirst(b) ==
    <<[text |-> fullPrompt(b)]>>
        \o (IF FilePresent(b.mask) THEN <<FilePart(b.mask)>> ELSE <<>>)
        \o <<FilePart(b.image)>>

parts(b) ==
    <<[text |-> fullPrompt(b)], FilePart(b.image)>>
        \o (IF FilePresent(b.mask) THEN <<FilePart(b.mask)>> ELSE <<>>)

\* the argument of model.generateContent: a string, or { contents: [{ parts }] }
request(b) ==
    IF FilePresent(b.image)
    THEN [type |-> "object", value |-> [contents |-> <<[parts |-> parts(b)]>>]]
    ELSE [type |-> "string", value |-> fullPrompt(b)]

(***************************************************************************)
(* The handler after its await: the response it sends.                     *)
(***************************************************************************)
\* response.candidates?.[0]?.content?.parts
firstParts(response) ==
    IF /\ "candidates" \in DOMAIN response
       /\ Len(response.candidates) >= 1
       /\ "content" \in DOMAIN response.candidates[1]
    THEN Some(response.candidates[1].content.parts)
    ELSE Undefined

\* faulty variant: the last part with inline data
findLast(ps) ==
    LET hits == {i \in 1..Len(ps) : "inlineData" \in DOMAIN ps[i]}
    IN  IF hits = {} THEN Undefined
        ELSE Some(ps[CHOOSE i \in hits : \A k \in hits : k <= i])

\* Array.prototype.find(p => p.inlineData)
find(ps) ==
    LET hits == {i \in 1..Len(ps) : "inlineData" \in DOMAIN ps[i]}
    IN  IF hits = {} THEN Undefined ELSE Some(ps[Min(hits)])

imagePart(response) ==
    IF firstParts(response) = Undefined THEN Undefined
    ELSE find(firstParts(response)[1])

NoImageMessage == "No image data returned from API and no error message found."

\* faulty variant: the text of the response is never used
errorTextFallbackOnly(response) == NoImageMessage

\* response.candidates?.[0]?.content?.parts?.[0]?.text || "No image data ..."
errorText(response) ==
    LET ps == firstParts(response)
    IN  IF /\ ps # Undefined
           /\ Len(ps[1]) >= 1
           /\ "text" \in DOMAIN ps[1][1]
           /\ ps[1][1].text # ""
        THEN ps[1][1].text
        ELSE NoImageMessage

\* faulty variant: the error's message is replaced by a fixed text
onErrorGeneric(message) ==
    Res(500, [error |-> "Image Generation Failed.", details |-> "Internal error",
              checkLogs |-> "Check server logs for full traceback."])

\* the catch block
onError(message) ==
    Res(500, [error |-> "Image Generation Failed.", details |-> message,
              checkLogs |-> "Check server logs for full traceback."])

onResponse(response) ==
    IF imagePart(response) = Undefined
    THEN onError(errorText(response))
    ELSE Res(200, [image |-> imagePart(response)[1].inlineData.data,
                   finishReason |-> response.candidates[1].finishReason])

(***************************************************************************)
(* State machine.                                                          *)
(***************************************************************************)
Init ==
    /\ env \in [GOOGLE_API_KEY : Opt({"", "key"})]
    /\ server = "starting"
    /\ health = Undefined
    /\ pc = [r \in Slots |-> "idle"]
    /\ body = [r \in Slots |-> Undefined]
    /\ calls = [r \in Slots |-> <<>>]
    /\ reply = [r \in Slots |-> Undefined]
    /\ sent = [r \in Slots |-> <<>>]

\* module load: the API key check, then app.listen
Startup ==
    /\ server = "starting"
    /\ server' = IF ~TruthyText(env.GOOGLE_API_KEY) THEN "exited" ELSE "listening"
    /\ UNCHANGED <<env, health, pc, body, calls, reply, sent>>

\* GET /health
Health ==
    /\ server = "listening"
    /\ health' = Some(Res(200, [status |-> "ok"]))
    /\ UNCHANGED <<env, server, pc, body, calls, reply, sent>>

\* POST /generate arrives: the validation middleware, then the handler up to
\* its await of model.generateContent(request)
Receive(r, B) ==
    /\ server = "listening"
    /\ pc[r] = "idle"
    /\ \E b \in B :
        LET v == validateGenerateRequest(b)
        IN  /\ body' = [body EXCEPT ![r] = Some(b)]
            /\ sent' = [sent EXCEPT ![r] = @ \o v.sent]
            /\ IF v.next
               THEN /\ calls' = [calls EXCEPT ![r] = Append(@, request(b))]
                    /\ pc' = [pc EXCEPT ![r] = "awaiting"]
               ELSE /\ pc' = [pc EXCEPT ![r] = "done"]
                    /\ UNCHANGED calls
    /\ UNCHANGED <<env, server, health, reply>>

\* the awaited call settles: the rest of the try block, or the catch block
Settle(r, U) ==
    /\ pc[r] = "awaiting"
    /\ \E u \in U :
        /\ reply' = [reply EXCEPT ![r] = Some(u)]
        /\ sent' = [sent EXCEPT ![r] =
                      Append(@, IF u.kind = "reject" THEN onError(u.message)
                                ELSE onResponse(u.response))]
    /\ pc' = [pc EXCEPT ![r] = "done"]
    /\ UNCHANGED <<env, server, health, body, calls>>

\* the response has been delivered; nothing of the request is kept
Release(r) ==
    /\ pc[r] = "done"
    /\ pc' = [pc EXCEPT ![r] = "idle"]
    /\ body' = [body EXCEPT ![r] = Undefined]
    /\ calls' = [calls EXCEPT ![r] = <<>>]
    /\ reply' = [reply EXCEPT ![r] = Undefined]
    /\ sent' = [sent EXCEPT ![r] = <<>>]
    /\ UNCHANGED <<env, server, health>>

\* the route, for requests on the slots R with bodies from B and replies from U
Generate(R, B, U) ==
    \E r \in R :
        \/ Receive(r, B)
        \/ Settle(r, U)
        \/ Release(r)

\* one request at a time, every body
Next == Startup \/ Health \/ Generate({1}, Bodies, FewReplies)

Spec == Init /\ [][Next]_vars

\* one request at a time, every upstream reply
NextUpstream == Startup \/ Health \/ Generate({1}, FewBodies, Replies)

SpecUpstream == Init /\ [][NextUpstream]_vars

\* concurrent requests
NextConcurrent == Startup \/ Health \/ Generate(Slots, FewBodies, FewReplies)

SpecConcurrent == Init /\ [][NextConcurrent]_vars

(***************************************************************************)
(* Properties.  The definitions below state them in their own terms: a     *)
(* field "lacks" a value when it is missing or empty, text is "after the   *)
(* last comma" by index, parts are collected over all candidates.          *)
(***************************************************************************)
Received(r) == body[r] # Undefined

BodyOf(r) == body[r][1]

LacksText(o) == o \in {<<>>, <<"">>}

LacksChars(o) == o \in {<<>>, << <<>> >>}

Malformed(o) == o # <<>> /\ (LacksChars(o[1].data) \/ LacksText(o[1].mimeType))

FailsValidation(b) == LacksText(b.prompt) \/ Malformed(b.image) \/ Malformed(b.mask)

\* the one response of a finished request, and the fields of its JSON body
Answer(r) == sent[r][1]

Fields(r) == DOMAIN Answer(r).body

ClientError(r) ==
    /\ Len(sent[r]) = 1
    /\ Answer(r).status = 400
    /\ Fields(r) = {"error", "details"}

\* C1: a request that fails validation (prompt missing or empty, or an image
\* or a mask lacking data or mimeType) is answered 400 with exactly the
\* fields error and details, and the upstream model is never called for it.
C1_InvalidRequestRejected ==
    \A r \in Slots :
        (Received(r) /\ FailsValidation(BodyOf(r))) =>
            /\ pc[r] = "done"
            /\ ClientError(r)
            /\ calls[r] = <<>>
            /\ reply[r] = Undefined

\* a well-formed prompt and image with a mask that has no data was rejected
C1_Witness ==
    \E r \in Slots :
        /\ Received(r)
        /\ BodyOf(r).prompt = <<"cat">>
        /\ BodyOf(r).image # <<>> /\ ~Malformed(BodyOf(r).image)
        /\ BodyOf(r).mask # <<>> /\ BodyOf(r).mask[1].data = <<>>
        /\ ClientError(r)
        /\ Answer(r).body.error = "Invalid mask data"

\* C2: a request that carries a mask but no image is rejected as a client
\* input error and never reaches the upstream call.
C2_MaskWithoutImageRejected ==
    \A r \in Slots :
        (Received(r) /\ BodyOf(r).mask # <<>> /\ BodyOf(r).image = <<>>) =>
            /\ pc[r] = "done"
            /\ ClientError(r)
            /\ calls[r] = <<>>

IsSuffix(x, s) == Len(x) <= Len(s) /\ x = SubSeq(s, Len(s) - Len(x) + 1, Len(s))

\* an inline part made from the file object f
InlineOf(part, f) ==
    /\ DOMAIN part = {"inlineData"}
    /\ part.inlineData.mimeType = f.mimeType[1]
    /\ IsSuffix(part.inlineData.data, f.data[1])

\* C3: for a request that passes validation the upstream model is called
\* with the plain prompt string when there is no image, with the two parts
\* text, image when there is an image and no mask, and with the three parts
\* text, image, mask when there are both.
C3_PayloadShape ==
    \A r \in Slots :
        (Received(r) /\ ~FailsValidation(BodyOf(r))) =>
            /\ Len(calls[r]) = 1
            /\ LET b == BodyOf(r)
                   q == calls[r][1]
               IN  IF b.image = <<>>
                   THEN q.type = "string"
                   ELSE /\ q.type = "object"
                        /\ Len(q.value.contents) = 1
                        /\ LET ps == q.value.contents[1].parts
                           IN  /\ Len(ps) = IF b.mask = <<>> THEN 2 ELSE 3
                               /\ DOMAIN ps[1] = {"text"}
                               /\ InlineOf(ps[2], b.image[1])
                               /\ b.mask # <<>> => InlineOf(ps[3], b.mask[1])

\* a call with three parts whose image and mask differ in type and data
C3_Witness ==
    \E r \in Slots :
        /\ Len(calls[r]) = 1
        /\ calls[r][1].type = "object"
        /\ LET ps == calls[r][1].value.contents[1].parts
           IN  /\ Len(ps) = 3
               /\ ps[2].inlineData.mimeType = "image/png"
               /\ ps[3].inlineData.mimeType = "image/jpeg"
               /\ ps[2].inlineData.data # ps[3].inlineData.data

Resolved(r) == pc[r] = "done" /\ reply[r] # Undefined /\ reply[r][1].kind = "resolve"

ResponseOf(r) == reply[r][1].response

CandidatesOf(response) ==
    IF "candidates" \in DOMAIN response THEN response.candidates ELSE <<>>

PartsOf(candidate) ==
    IF "content" \in DOMAIN candidate THEN candidate.content.parts ELSE <<>>

\* the parts of every candidate, in order
RECURSIVE AllParts(_)
AllParts(cs) == IF cs = <<>> THEN <<>> ELSE PartsOf(Head(cs)) \o AllParts(Tail(cs))

HasInline(ps) == \E i \in 1..Len(ps) : "inlineData" \in DOMAIN ps[i]

FirstInline(ps) ==
    ps[CHOOSE i \in 1..Len(ps) :
          /\ "inlineData" \in DOMAIN ps[i]
          /\ \A k \in 1..(i - 1) : "inlineData" \notin DOMAIN ps[k]]

Success(r, image, finishReason) ==
    sent[r] = <<Res(200, [image |-> image, finishReason |-> finishReason])>>

\* C4 as stated: whenever any part of the upstream response carries inline
\* image data, the request succeeds with the data of the first such part and
\* the first candidate's finish reason.
C4_AnyInlinePartSucceeds ==
    \A r \in Slots :
        (Resolved(r) /\ HasInline(AllParts(CandidatesOf(ResponseOf(r))))) =>
            Success(r, FirstInline(AllParts(CandidatesOf(ResponseOf(r)))).inlineData.data,
                    CandidatesOf(ResponseOf(r))[1].finishReason)

\* C4 amended: whenever a part of the first candidate of the upstream
\* response carries inline image data, the request succeeds, image is the
\* data of the first such part and finishReason is the first candidate's,
\* both unmodified.
C4_FirstCandidateInlineSucceeds ==
    \A r \in Slots :
        (/\ Resolved(r)
         /\ CandidatesOf(ResponseOf(r)) # <<>>
         /\ HasInline(PartsOf(CandidatesOf(ResponseOf(r))[1]))) =>
            Success(r, FirstInline(PartsOf(CandidatesOf(ResponseOf(r))[1])).inlineData.data,
                    CandidatesOf(ResponseOf(r))[1].finishReason)

\* a success from a first candidate with two different inline parts and the
\* finish reason SAFETY, followed by a candidate with another finish reason
C4_Witness ==
    \E r \in Slots :
        /\ Resolved(r)
        /\ Len(CandidatesOf(ResponseOf(r))) = 2
        /\ CandidatesOf(ResponseOf(r))[1].finishReason = "SAFETY"
        /\ CandidatesOf(ResponseOf(r))[2].finishReason = "STOP"
        /\ PartsOf(CandidatesOf(ResponseOf(r))[1]) = <<InlinePart("IMG2"), InlinePart("IMG1")>>
        /\ Success(r, "IMG2", "SAFETY")

ServerError(r) ==
    /\ Len(sent[r]) = 1
    /\ Answer(r).status = 500
    /\ Fields(r) = {"error", "details", "checkLogs"}

\* the non-empty texts carried by the parts ps
Texts(ps) ==
    {ps[i].text : i \in {k \in 1..Len(ps) : "text" \in DOMAIN ps[k] /\ ps[k].text # ""}}

NoInlineAtAll(r) == Resolved(r) /\ ~HasInline(AllParts(CandidatesOf(ResponseOf(r))))

\* C5 as stated: when the upstream response carries no inline image data the
\* request fails with 500 and no image, and details is a text of the
\* response whenever the response carries any text, the fallback otherwise.
C5_AnyTextIsDetail ==
    \A r \in Slots :
        NoInlineAtAll(r) =>
            /\ ServerError(r)
            /\ LET texts == Texts(AllParts(CandidatesOf(ResponseOf(r))))
               IN  IF texts # {} THEN Answer(r).body.details \in texts
                   ELSE Answer(r).body.details = NoImageMessage

\* C5 amended: when the upstream response carries no inline image data the
\* request fails with 500 and no image, and details is the text of the first
\* part of the first candidate when that part carries non-empty text, the
\* fallback otherwise.
C5_FirstPartTextIsDetail ==
    \A r \in Slots :
        NoInlineAtAll(r) =>
            /\ ServerError(r)
            /\ LET cs == CandidatesOf(ResponseOf(r))
                   ps == IF cs = <<>> THEN <<>> ELSE PartsOf(cs[1])
               IN  IF ps # <<>> /\ Texts(<<ps[1]>>) # {}
                   THEN Answer(r).body.details = ps[1].text
                   ELSE Answer(r).body.details = NoImageMessage

\* a failure that reports the text of the first part, and not the fallback
C5_Witness ==
    \E r \in Slots :
        /\ NoInlineAtAll(r)
        /\ CandidatesOf(ResponseOf(r)) # <<>>
        /\ PartsOf(CandidatesOf(ResponseOf(r))[1]) = <<TextPart("blocked"), OtherPart>>
        /\ ServerError(r)
        /\ Answer(r).body.details = "blocked"

Rejected500(r) == pc[r] = "done" /\ reply[r] # Undefined /\ reply[r][1].kind = "reject"

\* C6: when the upstream call of a validated request throws, the model was
\* called exactly once, and the request ends with one 500 response with the
\* fields error, details and checkLogs, details being the thrown message.
C6_UpstreamErrorPropagated ==
    \A r \in Slots :
        Rejected500(r) =>
            /\ Len(calls[r]) = 1
            /\ ServerError(r)
            /\ Answer(r).body.details = reply[r][1].message

\* the upstream rejected with a quota error and the request reported it
C6_Witness ==
    \E r \in Slots :
        /\ Rejected500(r)
        /\ reply[r][1].message = "429 quota exceeded"
        /\ Answer(r).body.details = "429 quota exceeded"

\* a response is a success with image and finishReason and no error, or an
\* error with error and details and no image
ImageOrError(x) ==
    \/ x.status = 200 /\ DOMAIN x.body = {"image", "finishReason"}
    \/ /\ x.status \in {400, 500}
       /\ {"error", "details"} \subseteq DOMAIN x.body
       /\ DOMAIN x.body \cap {"image", "finishReason"} = {}

HasComma(s) == \E i \in 1..Len(s) : s[i] = ","

\* the text after the last comma of s, and s itself when it has no comma
AfterLastComma(s) ==
    LET last == IF HasComma(s)
                THEN CHOOSE i \in 1..Len(s) :
                        s[i] = "," /\ \A k \in (i + 1)..Len(s) : s[k] # ","
                ELSE 0
    IN  SubSeq(s, last + 1, Len(s))

Forwarded(part, f) ==
    /\ part.inlineData.data = AfterLastComma(f.data[1])
    /\ ~HasComma(f.data[1]) => part.inlineData.data = f.data[1]
    /\ ~HasComma(part.inlineData.data)
    /\ part.inlineData.mimeType = f.mimeType[1]

ImageCall(r) == Len(calls[r]) = 1 /\ calls[r][1].type = "object"

\* C8: the data forwarded in the inline part of an image or a mask is the
\* text after the last comma of the supplied data, the supplied data itself
\* when it has no comma (so it holds no comma and stripping it again changes
\* nothing), and the mimeType is forwarded unchanged.
C8_DataUrlPrefixStripped ==
    \A r \in Slots :
        ImageCall(r) =>
            LET ps == calls[r][1].value.contents[1].parts
            IN  /\ Forwarded(ps[2], BodyOf(r).image[1])
                /\ Len(ps) = 3 => Forwarded(ps[3], BodyOf(r).mask[1])

\* an image with two commas was forwarded as the text after the second, and
\* a mask without a comma unchanged
C8_Witness ==
    \E r \in Slots :
        /\ ImageCall(r)
        /\ BodyOf(r).image[1].data = << <<",", ",", "A">> >>
        /\ BodyOf(r).mask # <<>>
        /\ BodyOf(r).mask[1].data = << <<"A", "A">> >>
        /\ calls[r][1].value.contents[1].parts[2].inlineData.data = <<"A">>
        /\ calls[r][1].value.contents[1].parts[3].inlineData.data = <<"A", "A">>

\* the prompt text of an upstream call
PromptText(q) ==
    IF q.type = "string" THEN q.value ELSE q.value.contents[1].parts[1].text

\* C9 as stated: the prompt text given to the upstream model is the prompt,
\* ". --negative ", and the caller's negative when the caller supplies one,
\* the default when the caller supplies none.
C9_NegativeAsSupplied ==
    \A r \in Slots :
        Len(calls[r]) = 1 =>
            PromptText(calls[r][1]) =
                BodyOf(r).prompt[1] \o ". --negative "
                    \o (IF BodyOf(r).negative = <<>> THEN DefaultNegative
                        ELSE BodyOf(r).negative[1])

\* C9 amended: the prompt text given to the upstream model is the prompt,
\* ". --negative ", and the caller's negative when it is a non-empty text,
\* the default when the caller supplies none or the empty text.
C9_NegativeOrDefault ==
    \A r \in Slots :
        Len(calls[r]) = 1 =>
            /\ PromptText(calls[r][1]) =
                BodyOf(r).prompt[1] \o ". --negative "
                    \o (IF LacksText(BodyOf(r).negative) THEN DefaultNegative
                        ELSE BodyOf(r).negative[1])
            /\ (BodyOf(r).prompt = <<"cat">> /\ BodyOf(r).negative = <<>>) =>
                PromptText(calls[r][1]) = "cat. --negative blurry, low quality, watermarks"
            /\ (BodyOf(r).prompt = <<"cat">> /\ BodyOf(r).negative = <<"dog">>) =>
                PromptText(calls[r][1]) = "cat. --negative dog"

\* a call in image mode whose caller supplied the empty text as negative
C9_Witness ==
    \E r \in Slots :
        /\ Len(calls[r]) = 1
        /\ calls[r][1].type = "object"
        /\ BodyOf(r).negative = <<"">>
        /\ PromptText(calls[r][1]) = "cat. --negative blurry, low quality, watermarks"

\* C10: without GOOGLE_API_KEY the process does not exit on startup: once
\* started, the server is listening (GET /health is served).
C10_StartsWithoutApiKey ==
    (env.GOOGLE_API_KEY = <<>> /\ server # "starting") => server = "listening"

====
